---- MODULE Spec2Model ----
(***************************************************************************)
(* Smart Exam Seating System, script.js: the backtracking seat solver      *)
(* (tryArrange / dfs), the roll-number assignment (assignRollsToGrid) and  *)
(* the top-level handler (attemptAndRender), as a state machine.           *)
(***************************************************************************)
EXTENDS Integers, Sequences, FiniteSets, TLC

\* ------------------------------------------------------------------------
\* Bounds of the model
\* ------------------------------------------------------------------------
MaxCells == 4
NumDepts == 2
MaxCount == 3
MaxLimit == 3

\* ------------------------------------------------------------------------
\* Program constants
\* ------------------------------------------------------------------------
departments == <<"CSE", "ECE", "IT", "MECH", "CIVIL">>
DefaultAttemptLimit == 20000
CallerAttemptLimit == 30000
tries == 5
PadWidth == 3

\* JavaScript null; `${null}` and the property key of null are both "null"
Null == "null"

\* a variable that holds either null or a grid (an array of rows)
NullGrid == [isNull |-> TRUE]
gridValue(g) == [isNull |-> FALSE, value |-> g]

DeptSet == {departments[i] : i \in 1..Len(departments)}
UsedDepts == {departments[i] : i \in 1..NumDepts}

VARIABLES
  entry,        \* which function the environment invokes
  rows, cols, countsMap, attemptLimit,   \* arguments of tryArrange
  pc,           \* position in the running code
  grid,         \* tryArrange: grid[r][c], a dept or null
  countsLeft,   \* tryArrange: remaining count per dept
  attempts,     \* tryArrange: number of dfs calls so far
  stack,        \* active dfs calls that are inside their for loop
  arg,          \* idx of the dfs call being entered
  ret,          \* value the last dfs call returned
  result,       \* value the last tryArrange call returned
  runs,         \* number of tryArrange invocations
  t, seating,   \* attemptAndRender: loop counter and seating
  wrap,         \* attemptAndRender: what ends up in the seating-wrap element
  lgrid,        \* assignRollsToGrid: its argument
  lr, lc,       \* assignRollsToGrid: loop variables r, c
  counters,     \* assignRollsToGrid: counters object
  seats,        \* assignRollsToGrid: result array
  thrown        \* an uncaught exception, or "none"

vars == <<entry, rows, cols, countsMap, attemptLimit, pc, grid, countsLeft,
          attempts, stack, arg, ret, result, runs, t, seating, wrap,
          lgrid, lr, lc, counters, seats, thrown>>

solverVars == <<grid, countsLeft, attempts, stack, arg, ret, result>>
callerVars == <<t, seating, wrap>>
labelVars == <<lgrid, lr, lc, counters, seats>>
inputVars == <<entry, rows, cols, countsMap, attemptLimit>>

\* ------------------------------------------------------------------------
\* Helpers
\* ------------------------------------------------------------------------
RECURSIVE SumSeq(_)
SumSeq(s) == IF s = <<>> THEN 0 ELSE Head(s) + SumSeq(Tail(s))

\* Object.keys(obj): own keys in insertion order (the order of departments)
keys(obj) == SelectSeq(departments, LAMBDA d : d \in DOMAIN obj)

\* Array(cols).fill(null) for each of rows rows
emptyGrid(rs, cs) == [r \in 0..(rs - 1) |-> [c \in 0..(cs - 1) |-> Null]]

\* neighbors with the left neighbour forgotten
neighborsNoLeft(r, c, rs, cs) ==
  (IF r > 0 THEN <<(<<r - 1, c>>)>> ELSE <<>>)
  \o (IF r < rs - 1 THEN <<(<<r + 1, c>>)>> ELSE <<>>)
  \o (IF c < cs - 1 THEN <<(<<r, c + 1>>)>> ELSE <<>>)

\* neighbors(r,c,rows,cols): up, down, left, right, in that order
neighbors(r, c, rs, cs) ==
  (IF r > 0 THEN <<(<<r - 1, c>>)>> ELSE <<>>)
  \o (IF r < rs - 1 THEN <<(<<r + 1, c>>)>> ELSE <<>>)
  \o (IF c > 0 THEN <<(<<r, c - 1>>)>> ELSE <<>>)
  \o (IF c < cs - 1 THEN <<(<<r, c + 1>>)>> ELSE <<>>)

\* canPlace(r,c,dept): no neighbour holds dept
canPlace(g, r, c, dept, rs, cs) ==
  LET ns == neighbors(r, c, rs, cs)
  IN  \A i \in 1..Len(ns) : g[ns[i][1]][ns[i][2]] # dept

\* cells: all coordinates in row-major order; cells[idx] of the code is
\* cellAt(idx) (idx counts from 0)
cells(rs, cs) == [k \in 1..(rs * cs) |-> <<(k - 1) \div cs, (k - 1) % cs>>]
cellAt(idx, rs, cs) == cells(rs, cs)[idx + 1]

\* pool: one entry per student of every dept with a positive count; only
\* its length is read (line 42), so the shuffle of line 46 changes nothing
\* that the code observes
RECURSIVE repeat(_, _)
repeat(d, n) == IF n <= 0 THEN <<>> ELSE <<d>> \o repeat(d, n - 1)
RECURSIVE poolOf(_, _)
poolOf(ds, cm) ==
  IF ds = <<>> THEN <<>>
  ELSE repeat(Head(ds), cm[Head(ds)]) \o poolOf(Tail(ds), cm)
\* pool filled with i <= countsMap[d]: one entry too many per dept
poolOffByOne(cm) ==
  poolOf(SelectSeq(keys(cm), LAMBDA d : cm[d] > 0),
         [d \in DOMAIN cm |-> cm[d] + 1])
pool(cm) == poolOf(SelectSeq(keys(cm), LAMBDA d : cm[d] > 0), cm)

\* cand.sort((a,b) => countsLeft[b]-countsLeft[a]): descending by count and
\* stable, so s[i] lands behind every element with a larger count and every
\* earlier element with the same count
sortRank(s, cl, i) ==
  1 + Cardinality({j \in 1..Len(s) :
                     \/ cl[s[j]] > cl[s[i]]
                     \/ (cl[s[j]] = cl[s[i]] /\ j < i)})
sortDesc(s, cl) ==
  [k \in 1..Len(s) |-> s[CHOOSE i \in 1..Len(s) : sortRank(s, cl, i) = k]]

\* cand.sort(() => Math.random()-0.5): some permutation of cand
shuffled(s) == {[i \in 1..Len(s) |-> s[p[i]]] : p \in Permutations(1..Len(s))}

\* candidates filtered with countsLeft[d] >= 0
candidatesWithZero(cl) ==
  UNION {IF Len(cand) > 1 THEN {cand} \cup shuffled(cand) ELSE {cand} :
           cand \in {sortDesc(SelectSeq(keys(cl), LAMBDA d : cl[d] >= 0), cl)}}

\* the candidate list of one dfs call, for every outcome of Math.random()
candidates(cl) ==
  UNION {IF Len(cand) > 1 THEN {cand} \cup shuffled(cand) ELSE {cand} :
           cand \in {sortDesc(SelectSeq(keys(cl), LAMBDA d : cl[d] > 0), cl)}}

\* totalCount(counts)
totalCount(cm) == SumSeq([i \in 1..Len(keys(cm)) |-> cm[keys(cm)[i]]])

\* String(n) for n >= 0, as a sequence of digit characters
DigitChar == <<"0", "1", "2", "3", "4", "5", "6", "7", "8", "9">>
RECURSIVE String(_)
String(n) ==
  IF n < 10 THEN <<DigitChar[n + 1]>>
  ELSE String(n \div 10) \o <<DigitChar[(n % 10) + 1]>>

\* s.padStart(len, ch)
RECURSIVE padStart(_, _, _)
padStart(s, len, ch) ==
  IF Len(s) >= len THEN s ELSE padStart(<<ch>> \o s, len, ch)

\* `${d}-${String(n).padStart(3,'0')}`
roll(d, n) == <<d, "-">> \o padStart(String(n), PadWidth, "0")

\* counters read as if never written
counterOfUnset(cnt, d) == 0

\* counters[d] || 0
counterOf(cnt, d) == IF d \in DOMAIN cnt THEN cnt[d] ELSE 0

\* ------------------------------------------------------------------------
\* Initial states
\* ------------------------------------------------------------------------
Dims == {d \in (1..MaxCells) \X (1..MaxCells) : d[1] * d[2] <= MaxCells}

\* counts as readCounts builds them: every department, non-negative
CountMaps ==
  {cm \in [DeptSet -> 0..MaxCount] : \A d \in DeptSet \ UsedDepts : cm[d] = 0}

AttemptLimits == (1..MaxLimit) \cup {DefaultAttemptLimit}

\* the values of a cell of a hand-constructed grid
CellValues == UsedDepts \cup {Null}

\* hand-constructed grids: the empty array, and every grid of the
\* dimensions above whose cells hold a department or null
HandGrids ==
  {<<>>} \cup
  UNION {[0..(d[1] - 1) -> [0..(d[2] - 1) -> CellValues]] : d \in Dims}

\* the page is loaded and no handler has run yet
Init ==
  /\ entry = "none"
  /\ rows = 0
  /\ cols = 0
  /\ countsMap = [d \in DeptSet |-> 0]
  /\ attemptLimit = 0
  /\ pc = "idle"
  /\ grid = <<>>
  /\ countsLeft = [d \in DeptSet |-> 0]
  /\ attempts = 0
  /\ stack = <<>>
  /\ arg = 0
  /\ ret = FALSE
  /\ result = NullGrid
  /\ runs = 0
  /\ t = 0
  /\ seating = NullGrid
  /\ wrap = ""
  /\ lgrid = <<>>
  /\ lr = 0
  /\ lc = 0
  /\ counters = <<>>
  /\ seats = <<>>
  /\ thrown = "none"

\* a click on Generate or Shuffle: attemptAndRender runs on the values
\* readCounts takes from the form
ClickGenerate ==
  /\ pc = "idle"
  /\ entry' = "attemptAndRender"
  /\ \E d \in Dims : rows' = d[1] /\ cols' = d[2]
  /\ countsMap' \in CountMaps
  /\ attemptLimit' = CallerAttemptLimit
  /\ pc' = "start"
  /\ UNCHANGED <<solverVars, runs, callerVars, labelVars, thrown>>

\* tryArrange(rows, cols, countsMap, attemptLimit) is called on its own
CallTryArrange ==
  /\ pc = "idle"
  /\ entry' = "tryArrange"
  /\ \E d \in Dims : rows' = d[1] /\ cols' = d[2]
  /\ countsMap' \in CountMaps
  /\ attemptLimit' \in AttemptLimits
  /\ pc' = "call"
  /\ UNCHANGED <<solverVars, runs, callerVars, labelVars, thrown>>

\* assignRollsToGrid(grid) is called on its own, on a hand-constructed grid
CallAssignRolls ==
  /\ pc = "idle"
  /\ entry' = "assignRollsToGrid"
  /\ lgrid' \in HandGrids
  /\ pc' = "label"
  /\ UNCHANGED <<solverVars, runs, callerVars, rows, cols, countsMap,
                 attemptLimit, lr, lc, counters, seats, thrown>>

Invoke ==
  \/ ClickGenerate
  \/ CallTryArrange
  \/ CallAssignRolls

\* ------------------------------------------------------------------------
\* tryArrange
\* ------------------------------------------------------------------------
\* lines 34-42: the pool does not fill the grid
TryArrangeMismatch ==
  /\ pc = "call"
  /\ Len(pool(countsMap)) # rows * cols
  /\ result' = NullGrid
  /\ runs' = runs + 1
  /\ pc' = "returned"
  /\ UNCHANGED <<grid, countsLeft, attempts, stack, arg, ret>>
  /\ UNCHANGED <<inputVars, callerVars, labelVars, thrown>>

\* lines 34-59 and the call dfs(0) of line 100
TryArrangeBegin ==
  /\ pc = "call"
  /\ Len(pool(countsMap)) = rows * cols
  /\ grid' = emptyGrid(rows, cols)
  /\ countsLeft' = countsMap
  /\ attempts' = 0
  /\ stack' = <<>>
  /\ arg' = 0
  /\ runs' = runs + 1
  /\ pc' = "enter"
  /\ UNCHANGED <<ret, result>>
  /\ UNCHANGED <<inputVars, callerVars, labelVars, thrown>>

top == stack[Len(stack)]
pop == SubSeq(stack, 1, Len(stack) - 1)

\* line 70: the attempt limit is exceeded
DfsLimit ==
  /\ pc = "enter"
  /\ attempts + 1 > attemptLimit
  /\ attempts' = attempts + 1
  /\ ret' = FALSE
  /\ pc' = "return"
  /\ UNCHANGED <<grid, countsLeft, stack, arg, result, runs>>
  /\ UNCHANGED <<inputVars, callerVars, labelVars, thrown>>

\* line 71: every cell is filled
DfsComplete ==
  /\ pc = "enter"
  /\ attempts + 1 <= attemptLimit
  /\ arg = rows * cols
  /\ attempts' = attempts + 1
  /\ ret' = TRUE
  /\ pc' = "return"
  /\ UNCHANGED <<grid, countsLeft, stack, arg, result, runs>>
  /\ UNCHANGED <<inputVars, callerVars, labelVars, thrown>>

\* lines 73-84: build the candidate list and enter the for loop
DfsCandidates ==
  /\ pc = "enter"
  /\ attempts + 1 <= attemptLimit
  /\ arg # rows * cols
  /\ attempts' = attempts + 1
  /\ \E cand \in candidates(countsLeft) :
       stack' = Append(stack, [idx |-> arg, cand |-> cand, d |-> Null,
                               entryGrid |-> grid, entryCounts |-> countsLeft])
  /\ pc' = "loop"
  /\ UNCHANGED <<grid, countsLeft, arg, ret, result, runs>>
  /\ UNCHANGED <<inputVars, callerVars, labelVars, thrown>>

\* line 87 with break in place of continue
DfsSkipBreak ==
  /\ pc = "loop"
  /\ top.cand # <<>>
  /\ LET rc == cellAt(top.idx, rows, cols)
     IN  ~canPlace(grid, rc[1], rc[2], Head(top.cand), rows, cols)
  /\ stack' = [stack EXCEPT ![Len(stack)].cand = <<>>]
  /\ UNCHANGED <<grid, countsLeft, attempts, arg, ret, result, runs, pc>>
  /\ UNCHANGED <<inputVars, callerVars, labelVars, thrown>>

\* line 87: the next candidate cannot be placed
DfsSkip ==
  /\ pc = "loop"
  /\ top.cand # <<>>
  /\ LET rc == cellAt(top.idx, rows, cols)
     IN  ~canPlace(grid, rc[1], rc[2], Head(top.cand), rows, cols)
  /\ stack' = [stack EXCEPT ![Len(stack)].cand = Tail(top.cand)]
  /\ UNCHANGED <<grid, countsLeft, attempts, arg, ret, result, runs, pc>>
  /\ UNCHANGED <<inputVars, callerVars, labelVars, thrown>>

\* lines 87-91: place the next candidate and call dfs(idx+1)
DfsPlace ==
  /\ pc = "loop"
  /\ top.cand # <<>>
  /\ LET rc == cellAt(top.idx, rows, cols)
         d == Head(top.cand)
     IN  /\ canPlace(grid, rc[1], rc[2], d, rows, cols)
         /\ grid' = [grid EXCEPT ![rc[1]][rc[2]] = d]
         /\ countsLeft' = [countsLeft EXCEPT ![d] = @ - 1]
         /\ stack' = [stack EXCEPT ![Len(stack)].cand = Tail(top.cand),
                                   ![Len(stack)].d = d]
  /\ arg' = top.idx + 1
  /\ pc' = "enter"
  /\ UNCHANGED <<attempts, ret, result, runs>>
  /\ UNCHANGED <<inputVars, callerVars, labelVars, thrown>>

\* line 97: no candidate is left
DfsFail ==
  /\ pc = "loop"
  /\ top.cand = <<>>
  /\ stack' = pop
  /\ ret' = FALSE
  /\ pc' = "return"
  /\ UNCHANGED <<grid, countsLeft, attempts, arg, result, runs>>
  /\ UNCHANGED <<inputVars, callerVars, labelVars, thrown>>

\* line 91: the recursive call returned true
DfsSuccess ==
  /\ pc = "return"
  /\ stack # <<>>
  /\ ret = TRUE
  /\ stack' = pop
  /\ UNCHANGED <<grid, countsLeft, attempts, arg, ret, result, runs, pc>>
  /\ UNCHANGED <<inputVars, callerVars, labelVars, thrown>>

\* lines 91-94 without countsLeft[d]++
DfsBacktrackNoRestore ==
  /\ pc = "return"
  /\ stack # <<>>
  /\ ret = FALSE
  /\ LET rc == cellAt(top.idx, rows, cols)
     IN  grid' = [grid EXCEPT ![rc[1]][rc[2]] = Null]
  /\ pc' = "loop"
  /\ UNCHANGED <<countsLeft, attempts, stack, arg, ret, result, runs>>
  /\ UNCHANGED <<inputVars, callerVars, labelVars, thrown>>

\* lines 91-94: the recursive call returned false
DfsBacktrack ==
  /\ pc = "return"
  /\ stack # <<>>
  /\ ret = FALSE
  /\ LET rc == cellAt(top.idx, rows, cols)
     IN  /\ grid' = [grid EXCEPT ![rc[1]][rc[2]] = Null]
         /\ countsLeft' = [countsLeft EXCEPT ![top.d] = @ + 1]
  /\ pc' = "loop"
  /\ UNCHANGED <<attempts, stack, arg, ret, result, runs>>
  /\ UNCHANGED <<inputVars, callerVars, labelVars, thrown>>

\* lines 100-102
TryArrangeReturn ==
  /\ pc = "return"
  /\ stack = <<>>
  /\ result' = IF ret THEN gridValue(grid) ELSE NullGrid
  /\ pc' = "returned"
  /\ UNCHANGED <<grid, countsLeft, attempts, stack, arg, ret, runs>>
  /\ UNCHANGED <<inputVars, callerVars, labelVars, thrown>>

\* tryArrange was invoked on its own
TryArrangeDone ==
  /\ pc = "returned"
  /\ entry = "tryArrange"
  /\ pc' = "done"
  /\ UNCHANGED <<solverVars, runs, inputVars, callerVars, labelVars, thrown>>

Solver ==
  \/ TryArrangeMismatch
  \/ TryArrangeBegin
  \/ DfsLimit
  \/ DfsComplete
  \/ DfsCandidates
  \/ DfsSkip
  \/ DfsPlace
  \/ DfsFail
  \/ DfsSuccess
  \/ DfsBacktrack
  \/ TryArrangeReturn
  \/ TryArrangeDone

\* ------------------------------------------------------------------------
\* assignRollsToGrid
\* ------------------------------------------------------------------------
\* grid.length and grid[0].length
lrows == Cardinality(DOMAIN lgrid)
lcols == Cardinality(DOMAIN lgrid[0])

\* line 107: grid[0] is undefined, reading its length throws a TypeError
LabelThrow ==
  /\ pc = "label"
  /\ lgrid = <<>>
  /\ thrown' = "TypeError"
  /\ pc' = "done"
  /\ UNCHANGED <<solverVars, runs, inputVars, callerVars, labelVars>>

\* lines 107-110
LabelBegin ==
  /\ pc = "label"
  /\ lgrid # <<>>
  /\ counters' = <<>>
  /\ seats' = emptyGrid(lrows, lcols)
  /\ lr' = 0
  /\ lc' = 0
  /\ pc' = "labelloop"
  /\ UNCHANGED <<solverVars, runs, inputVars, callerVars, lgrid, thrown>>

\* lines 112-115: the body of the inner loop, and c++
LabelCell ==
  /\ pc = "labelloop"
  /\ lr < lrows
  /\ lc < lcols
  /\ LET d == lgrid[lr][lc]
         n == counterOf(counters, d) + 1
     IN  /\ counters' = [k \in DOMAIN counters \cup {d} |->
                           IF k = d THEN n ELSE counters[k]]
         /\ seats' = [seats EXCEPT ![lr][lc] = [dept |-> d, roll |-> roll(d, n)]]
  /\ lc' = lc + 1
  /\ UNCHANGED <<solverVars, runs, inputVars, callerVars, lgrid, lr, pc, thrown>>

\* lines 110-111 with the counters object created anew for every row
LabelNextRowResets ==
  /\ pc = "labelloop"
  /\ lr < lrows
  /\ lc >= lcols
  /\ lr' = lr + 1
  /\ lc' = 0
  /\ counters' = <<>>
  /\ UNCHANGED <<solverVars, runs, inputVars, callerVars, lgrid, seats, pc,
                 thrown>>

\* lines 110-111: the inner loop ends, r++ and c = 0
LabelNextRow ==
  /\ pc = "labelloop"
  /\ lr < lrows
  /\ lc >= lcols
  /\ lr' = lr + 1
  /\ lc' = 0
  /\ UNCHANGED <<solverVars, runs, inputVars, callerVars, lgrid, counters,
                 seats, pc, thrown>>

\* line 118
LabelReturn ==
  /\ pc = "labelloop"
  /\ lr >= lrows
  /\ pc' = "labelled"
  /\ UNCHANGED <<solverVars, runs, inputVars, callerVars, labelVars, thrown>>

\* assignRollsToGrid was invoked on its own
LabelDone ==
  /\ pc = "labelled"
  /\ entry = "assignRollsToGrid"
  /\ pc' = "done"
  /\ UNCHANGED <<solverVars, runs, inputVars, callerVars, labelVars, thrown>>

Label ==
  \/ LabelThrow
  \/ LabelBegin
  \/ LabelCell
  \/ LabelNextRow
  \/ LabelReturn
  \/ LabelDone

\* ------------------------------------------------------------------------
\* attemptAndRender
\* ------------------------------------------------------------------------
\* lines 189-199: the sums do not match
RenderMismatch ==
  /\ pc = "start"
  /\ totalCount(countsMap) # rows * cols
  /\ wrap' = "mismatch"
  /\ pc' = "done"
  /\ UNCHANGED <<solverVars, runs, inputVars, t, seating, labelVars, thrown>>

\* lines 189-204
RenderBegin ==
  /\ pc = "start"
  /\ totalCount(countsMap) = rows * cols
  /\ wrap' = ""
  /\ seating' = NullGrid
  /\ t' = 0
  /\ pc' = "tries"
  /\ UNCHANGED <<solverVars, runs, inputVars, labelVars, thrown>>

\* the loop condition without the test of seating
loopCondNoStop(tt, s) == tt < tries

\* the loop condition of line 205
loopCond(tt, s) == tt < tries /\ s.isNull

\* lines 205-206: another call of tryArrange(rows, cols, counts, 30000)
TriesCall ==
  /\ pc = "tries"
  /\ loopCond(t, seating)
  /\ attemptLimit' = CallerAttemptLimit
  /\ pc' = "call"
  /\ UNCHANGED <<solverVars, runs, entry, rows, cols, countsMap, callerVars,
                 labelVars, thrown>>

\* line 206: seating = the value tryArrange returned, and t++
TriesAssign ==
  /\ pc = "returned"
  /\ entry = "attemptAndRender"
  /\ seating' = result
  /\ t' = t + 1
  /\ pc' = "tries"
  /\ UNCHANGED <<solverVars, runs, inputVars, wrap, labelVars, thrown>>

\* lines 205, 209-216: the loop ends without a seating
RenderNotPossible ==
  /\ pc = "tries"
  /\ ~loopCond(t, seating)
  /\ seating.isNull
  /\ wrap' = "notpossible"
  /\ pc' = "done"
  /\ UNCHANGED <<solverVars, runs, inputVars, t, seating, labelVars, thrown>>

\* lines 205, 218: the loop ends with a seating, call assignRollsToGrid
RenderLabel ==
  /\ pc = "tries"
  /\ ~loopCond(t, seating)
  /\ ~seating.isNull
  /\ lgrid' = seating.value
  /\ pc' = "label"
  /\ UNCHANGED <<solverVars, runs, inputVars, callerVars, lr, lc, counters,
                 seats, thrown>>

\* line 219: renderSeatingGrid(wrap, seatObjs)
RenderSeating ==
  /\ pc = "labelled"
  /\ entry = "attemptAndRender"
  /\ wrap' = "rendered"
  /\ pc' = "done"
  /\ UNCHANGED <<solverVars, runs, inputVars, t, seating, labelVars, thrown>>

Caller ==
  \/ RenderMismatch
  \/ RenderBegin
  \/ TriesCall
  \/ TriesAssign
  \/ RenderNotPossible
  \/ RenderLabel
  \/ RenderSeating

Next == Invoke \/ Solver \/ Caller \/ Label

Spec == Init /\ [][Next]_vars

\* a handler that was invoked runs to completion: the code is synchronous
\* and single-threaded; nothing obliges the environment to invoke one
FairSpec == Spec /\ WF_vars(Solver \/ Caller \/ Label)

\* ------------------------------------------------------------------------
\* Vocabulary of the properties
\* ------------------------------------------------------------------------
Coords(rs, cs) == (0..(rs - 1)) \X (0..(cs - 1))

Abs(x) == IF x < 0 THEN 0 - x ELSE x

\* two cells share an edge
Adjacent(p, q) == Abs(p[1] - q[1]) + Abs(p[2] - q[2]) = 1

\* no two cells that share an edge hold the same value
AdjacencyFree(g, rs, cs) ==
  \A p \in Coords(rs, cs), q \in Coords(rs, cs) :
    Adjacent(p, q) => g[p[1]][p[2]] # g[q[1]][q[2]]

CountCells(g, rs, cs, d) ==
  Cardinality({p \in Coords(rs, cs) : g[p[1]][p[2]] = d})

FullyAssigned(g, rs, cs) == \A p \in Coords(rs, cs) : g[p[1]][p[2]] # Null

CountsMet(g, rs, cs, cm) ==
  \A d \in DOMAIN cm : CountCells(g, rs, cs, d) = cm[d]

\* p is at or before q in row-major order
RowMajorLeq(p, q) == p[1] < q[1] \/ (p[1] = q[1] /\ p[2] <= q[2])

\* the number read back from the digits of an identifier
DigitVal(ch) == CHOOSE i \in 0..9 : DigitChar[i + 1] = ch
RECURSIVE ParseDigits(_)
ParseDigits(s) ==
  IF s = <<>> THEN 0
  ELSE ParseDigits(SubSeq(s, 1, Len(s) - 1)) * 10 + DigitVal(s[Len(s)])
RollCounter(id) == ParseDigits(SubSeq(id, 3, Len(id)))

Returned == pc = "returned"
Solved == ~result.isNull
Mismatch == totalCount(countsMap) # rows * cols

Instance(rs, cs, a, b) ==
  /\ rows = rs
  /\ cols = cs
  /\ countsMap = [d \in DeptSet |->
                    IF d = "CSE" THEN a ELSE IF d = "ECE" THEN b ELSE 0]

\* ------------------------------------------------------------------------
\* C1: every grid tryArrange returns has no two edge-adjacent cells of the
\* same department (no wraparound for one-row or one-column grids)
\* ------------------------------------------------------------------------
C1_AdjacencyInvariant ==
  Solved => AdjacencyFree(result.value, rows, cols)

C1_Witness ==
  /\ Returned
  /\ Solved
  /\ Instance(2, 2, 2, 2)

\* ------------------------------------------------------------------------
\* C2: every grid tryArrange returns has every cell assigned, and every
\* department of the counts mapping occupies exactly its requested number of
\* cells (none for a count of 0)
\* ------------------------------------------------------------------------
C2_CountFidelity ==
  Solved =>
    /\ DOMAIN result.value = 0..(rows - 1)
    /\ \A r \in 0..(rows - 1) : DOMAIN result.value[r] = 0..(cols - 1)
    /\ FullyAssigned(result.value, rows, cols)
    /\ CountsMet(result.value, rows, cols, countsMap)

C2_Witness ==
  /\ Returned
  /\ Solved
  /\ Instance(1, 3, 1, 2)
  /\ countsMap["IT"] = 0

\* ------------------------------------------------------------------------
\* C3: when the counts do not sum to rows*cols, tryArrange returns null
\* without ever calling dfs (attempts stays 0, no grid cell is placed), and
\* attemptAndRender reports the mismatch without invoking tryArrange
\* ------------------------------------------------------------------------
C3_MismatchRejected ==
  Mismatch =>
    /\ attempts = 0
    /\ DOMAIN grid = {}
    /\ stack = <<>>
    /\ pc \notin {"enter", "loop", "return"}
    /\ result.isNull
    /\ entry = "attemptAndRender" =>
         /\ runs = 0
         /\ pc \in {"start", "done"}
         /\ pc = "done" => wrap = "mismatch"

C3_Witness ==
  /\ Mismatch
  /\ Instance(2, 2, 3, 2)
  /\ entry = "tryArrange"
  /\ Returned
  /\ runs = 1

\* ------------------------------------------------------------------------
\* C4: the handler always terminates; the caller makes at most 5 runs of
\* tryArrange and none after the first success; on the infeasible instance
\* rows=2, cols=2, {A:3, B:1} every run returns null and the handler ends
\* with the search-failure report after 5 runs
\* ------------------------------------------------------------------------
C4_StopsAtFirstSuccess ==
  (entry = "attemptAndRender" /\ ~seating.isNull) =>
     pc \in {"tries", "label", "labelloop", "labelled", "done"}

C4_Infeasible ==
  Instance(2, 2, 3, 1) =>
    /\ result.isNull
    /\ (entry = "attemptAndRender" /\ pc = "done") =>
         (wrap = "notpossible" /\ runs = tries)

C4_Terminates ==
  /\ (pc # "idle") ~> (pc = "done")
  /\ [](runs <= tries)
  /\ []C4_StopsAtFirstSuccess
  /\ []C4_Infeasible

C4_Witness ==
  /\ Instance(2, 2, 3, 1)
  /\ entry = "attemptAndRender"
  /\ pc = "done"
  /\ wrap = "notpossible"
  /\ runs = tries

\* ------------------------------------------------------------------------
\* C5: for a fully assigned grid, the SeatGrid of assignRollsToGrid has the
\* same dimensions and departments, pairwise distinct identifiers, and per
\* department the counters 1..n with no gap and no repeat
\* ------------------------------------------------------------------------
Labelled == pc \in {"labelled", "done"} /\ thrown = "none" /\ lgrid # <<>>

C5_LabelUniqueness ==
  (Labelled /\ FullyAssigned(lgrid, lrows, lcols)) =>
    /\ DOMAIN seats = DOMAIN lgrid
    /\ \A r \in DOMAIN lgrid : DOMAIN seats[r] = DOMAIN lgrid[r]
    /\ \A p \in Coords(lrows, lcols) :
         seats[p[1]][p[2]].dept = lgrid[p[1]][p[2]]
    /\ \A p \in Coords(lrows, lcols), q \in Coords(lrows, lcols) :
         p # q => seats[p[1]][p[2]].roll # seats[q[1]][q[2]].roll
    /\ \A d \in CellValues :
         {RollCounter(seats[p[1]][p[2]].roll) :
            p \in {q \in Coords(lrows, lcols) : lgrid[q[1]][q[2]] = d}}
         = 1..CountCells(lgrid, lrows, lcols, d)

C5_Witness ==
  /\ Labelled
  /\ FullyAssigned(lgrid, lrows, lcols)
  /\ lrows = 2
  /\ lcols = 2
  /\ CountCells(lgrid, lrows, lcols, "CSE") = 3
  /\ CountCells(lgrid, lrows, lcols, "ECE") = 1

\* ------------------------------------------------------------------------
\* C6: assignRollsToGrid numbers the cells in row-major order: the seat of
\* cell (r,c) carries the department of the cell and, as counter, the number
\* of cells at row-major positions up to (r,c) that hold the same department;
\* the SeatGrid is therefore a function of the grid alone
\* ------------------------------------------------------------------------
RowMajorRank(g, rs, cs, p) ==
  Cardinality({q \in Coords(rs, cs) :
                 RowMajorLeq(q, p) /\ g[q[1]][q[2]] = g[p[1]][p[2]]})

C6_RowMajorNumbering ==
  Labelled =>
    \A p \in Coords(lrows, lcols) :
      /\ seats[p[1]][p[2]].dept = lgrid[p[1]][p[2]]
      /\ seats[p[1]][p[2]].roll[1] = lgrid[p[1]][p[2]]
      /\ seats[p[1]][p[2]].roll[2] = "-"
      /\ RollCounter(seats[p[1]][p[2]].roll) = RowMajorRank(lgrid, lrows, lcols, p)

\* the 2x2 grid  CSE ECE / ECE CSE : the second CSE is numbered in row 1
C6_Witness ==
  /\ Labelled
  /\ lrows = 2
  /\ lcols = 2
  /\ lgrid[0][0] = "CSE"
  /\ lgrid[0][1] = "ECE"
  /\ lgrid[1][0] = "ECE"
  /\ lgrid[1][1] = "CSE"
  /\ seats[1][0].roll = <<"ECE", "-", "0", "0", "2">>
  /\ seats[1][1].roll = <<"CSE", "-", "0", "0", "2">>

\* ------------------------------------------------------------------------
\* C7: rows=1, cols=4, {A:2, B:2} with the caller's limit of 30000 always
\* yields a valid grid; and a run whose attempt counter stays within
\* attemptLimit returns null only if no grid meets both the counts and the
\* adjacency rule
\* ------------------------------------------------------------------------
AllGrids(rs, cs) == [0..(rs - 1) -> [0..(cs - 1) -> UsedDepts]]

Feasible ==
  \E g \in AllGrids(rows, cols) :
    AdjacencyFree(g, rows, cols) /\ CountsMet(g, rows, cols, countsMap)

C7_Exhaustive ==
  /\ (Returned /\ Instance(1, 4, 2, 2) /\ attemptLimit = CallerAttemptLimit) =>
       /\ ~result.isNull
       /\ AdjacencyFree(result.value, rows, cols)
       /\ CountsMet(result.value, rows, cols, countsMap)
  /\ (Returned /\ result.isNull /\ attempts <= attemptLimit) => ~Feasible

C7_Witness ==
  /\ Returned
  /\ Solved
  /\ Instance(1, 4, 2, 2)
  /\ entry = "attemptAndRender"
  /\ attemptLimit = CallerAttemptLimit
  /\ attempts = rows * cols + 1
  /\ result.value[0][0] = "ECE"

\* ------------------------------------------------------------------------
\* C8: given an empty grid or a grid with a null cell, assignRollsToGrid
\* reports a failure, returns no SeatGrid and emits no seat whose department
\* is null
\* ------------------------------------------------------------------------
Malformed(g) ==
  \/ g = <<>>
  \/ \E r \in DOMAIN g : \E c \in DOMAIN g[r] : g[r][c] = Null

C8_InvalidGridRejected ==
  (entry = "assignRollsToGrid" /\ Malformed(lgrid)) =>
    /\ pc # "labelled"
    /\ pc = "done" => thrown # "none"
    /\ \A r \in DOMAIN seats : \A c \in DOMAIN seats[r] :
         (r < lr \/ (r = lr /\ c < lc)) => seats[r][c].dept # Null

\* ------------------------------------------------------------------------
\* C9: once a dfs call has found attempts above attemptLimit, no further
\* dfs call is made and no further cell is placed: attempts never goes
\* beyond attemptLimit + 1
\* ------------------------------------------------------------------------
C9_AttemptsBounded ==
  /\ attempts <= attemptLimit + 1
  /\ attempts > attemptLimit => pc \notin {"enter", "loop"}

\* ------------------------------------------------------------------------
\* C10: at every entry to dfs(idx) exactly the cells before idx are assigned,
\* the assigned cells respect the adjacency rule, and countsLeft plus the
\* cells held equals the requested count, with countsLeft >= 0; whenever dfs
\* returns false the grid and countsLeft are as they were at its entry
\* ------------------------------------------------------------------------
PrefixAssigned(g, idx) ==
  \A k \in 0..(rows * cols - 1) :
    LET rc == <<k \div cols, k % cols>>
    IN  (k < idx) <=> (g[rc[1]][rc[2]] # Null)

PrefixAdjacencyFree(g) ==
  \A p \in Coords(rows, cols), q \in Coords(rows, cols) :
    (Adjacent(p, q) /\ g[p[1]][p[2]] # Null) => g[p[1]][p[2]] # g[q[1]][q[2]]

CountsBalanced(g, cl) ==
  \A d \in DOMAIN countsMap :
    cl[d] >= 0 /\ cl[d] + CountCells(g, rows, cols, d) = countsMap[d]

C10_AtEntry ==
  pc = "enter" =>
    /\ PrefixAssigned(grid, arg)
    /\ PrefixAdjacencyFree(grid)
    /\ CountsBalanced(grid, countsLeft)

C10_PairedUndo ==
  /\ []C10_AtEntry
  /\ [][DfsFail => (grid' = top.entryGrid /\ countsLeft' = top.entryCounts)]_vars
  /\ [][DfsLimit => (grid' = grid /\ countsLeft' = countsLeft)]_vars

C10_Witness ==
  /\ pc = "return"
  /\ ret = FALSE
  /\ attempts <= attemptLimit
  /\ Len(stack) = 2
  /\ rows = 2
  /\ cols = 2
====
